---- MODULE Spec2Model ----
(***************************************************************************)
(* Model of the submariner game backend.                                   *)
(*                                                                         *)
(*  - the entity-component world of server/pkg/world/world.go (package     *)
(*    world): the parallel slices cNames / cFlags and the operations       *)
(*    AddEntity, AddComponent, RemoveComponent and                         *)
(*    FindAllEntitiesByComponentType;                                      *)
(*  - the game/session registry of the server (the variant with the        *)
(*    sessions map and uuid tokens): createGame, the CreateGame and        *)
(*    JoinGame HTTP handlers and joinGame.                                 *)
(*                                                                         *)
(* A Go run-time panic (index or slice bounds out of range) aborts the     *)
(* call before any assignment of the panicking statement takes effect; it  *)
(* is modelled as a call that returns with panicked = TRUE.                *)
(***************************************************************************)
EXTENDS Integers, Sequences, FiniteSets, TLC

\* ------------------------------------------------------------------ bounds
MaxEntities == 3

\* ------------------------------------------------- components (package components)
UNKNOWN == 1
NAME == 2
POSITION == 4

ComponentBits == {UNKNOWN, NAME, POSITION}

\* The values of type components.Name handed to AddComponent; "" is Go's zero string.
Names == {"a", "b"}

\* func (n Name) Type() int { return NAME }
Type(comp) == NAME

\* Entity ids offered to the operations: in range, and one off at either end.
EidInputs == -1 .. MaxEntities

\* ------------------------------------------------------------- Go's integer operators
RECURSIVE BitAnd(_, _)
BitAnd(a, b) ==
    IF a = 0 \/ b = 0 THEN 0
    ELSE (a % 2) * (b % 2) + 2 * BitAnd(a \div 2, b \div 2)

RECURSIVE BitOr(_, _)
BitOr(a, b) ==
    IF a = 0 THEN b
    ELSE IF b = 0 THEN a
    ELSE (IF (a % 2) + (b % 2) > 0 THEN 1 ELSE 0) + 2 * BitOr(a \div 2, b \div 2)

\* Go's bit clear a &^ b
RECURSIVE BitAndNot(_, _)
BitAndNot(a, b) ==
    IF a = 0 THEN 0
    ELSE (a % 2) * (1 - (b % 2)) + 2 * BitAndNot(a \div 2, b \div 2)

\* 1 << n
RECURSIVE Shl1(_)
Shl1(n) == IF n = 0 THEN 1 ELSE 2 * Shl1(n - 1)

\* ---------------------------------------------------------------- the world's state
VARIABLES
    cNames,     \* world.cNames: the name of each entity, indexed by entity id
    cFlags,     \* world.cFlags: the presence mask of each entity
    ids,        \* the ids AddEntity has returned, in call order
    wpre,       \* the slices as they were before the last call
    wlast       \* the last call: its arguments and what it returned

\* ------------------------------------------------------------- the world's systems
VARIABLES
    systems,    \* the registered systems in registration order: each is a
                \* nameReader, given by the buffer it writes to
    outs,       \* what has been written to each buffer
    updates     \* the number of Update calls made

\* ------------------------------------------------------------- the registry's state
VARIABLES
    gameModes,      \* Server.gameModes: per game, the record with its Players list
    gameStates,     \* Server.gameStates: per game, its GameState
    playerStates,   \* Server.playerStates: per player slot, its PlayerState
    connections,    \* Server.connections: per player slot, its websocket or nil
    sessions,       \* Server.sessions: token -> player slot
    minted,         \* the tokens uuid.New() has produced so far
    gameIds,        \* the game ids createGame has returned, in call order
    spre,           \* the registry as it was before the last call
    slast           \* the last call: its request and its response

\* ----------------------------------------------- connections and the broadcast loop
VARIABLES
    joins,          \* the successful joins in call order: token, slot and game
    conns,          \* the number of websockets upgraded so far; they are 1 .. conns
    readLoops,      \* per websocket, its ReadIncomingMessages goroutine
    bpc,            \* where the BeginUpdatePush goroutine is: "running", "stopped"
                    \* (it returned) or "crashed" (it panicked: the process is gone)
    stopSent,       \* whether a value has been sent on Server.stopChan
    btick,          \* what the last step wrote to the websockets, if it was a tick
    unsynced,       \* the number of player slots, the last ones, allocated by joins
                    \* whose writes nothing orders before the reads of the
                    \* BeginUpdatePush goroutine
    bprev,          \* the tick before the last one, if the last two steps were ticks
    jh              \* per handler goroutine serving a join: the statement of joinGame
                    \* it is at, the game id of its request and its local ID

sysvars == << systems, outs, updates >>

wvars == << cNames, cFlags, ids, wpre, wlast, sysvars >>

connvars == << conns, readLoops, bpc, stopSent >>

svars ==
    << gameModes, gameStates, playerStates, connections, sessions, minted,
       gameIds, spre, slast, joins, connvars, btick, unsynced, bprev, jh >>

vars == << wvars, svars >>

\* Slices are 0-based, sequences 1-based.
At(s, i) == s[i + 1]

InRange(s, i) == 0 <= i /\ i < Len(s)

SetAt(s, i, v) == [s EXCEPT ![i + 1] = v]

NoCall ==
    [op |-> "none", eid |-> 0, cid |-> 0, comp |-> "", retId |-> 0,
     retIds |-> << >>, panicked |-> FALSE, ticks |-> << >>, before |-> << >>]

\* ------------------------------------------------------------------ world.AddEntity
AddEntityIdFromNames(names, flags) == Len(names) - 1

\* id := len(w.cFlags) - 1, taken after the two appends
AddEntityId(names, flags) == Len(flags) - 1

AddEntity ==
    /\ Len(cFlags) < MaxEntities
    /\ cNames' = Append(cNames, "")
    /\ cFlags' = Append(cFlags, 0)
    /\ ids' = Append(ids, AddEntityId(cNames', cFlags'))
    /\ wpre' = [cNames |-> cNames, cFlags |-> cFlags]
    /\ wlast' = [NoCall EXCEPT !.op = "AddEntity",
                               !.retId = AddEntityId(cNames', cFlags')]
    /\ UNCHANGED << sysvars, svars >>

\* --------------------------------------------------------------- world.AddComponent
SetFlagByAdding(mask, bit) == mask + bit

\* w.cFlags[eid] |= comp.Type()
SetFlag(mask, bit) == BitOr(mask, bit)

\* w.cNames[eid] = v panics when eid is no index of cNames; cFlags is at least as
\* long as cNames, so the second statement cannot panic once the first has run.
AddComponentPanics(names, flags, eid) == ~InRange(names, eid)

AddComponentNames(names, flags, eid, comp) ==
    IF AddComponentPanics(names, flags, eid) THEN names
    ELSE SetAt(names, eid, comp)

AddComponentFlags(names, flags, eid, comp) ==
    IF AddComponentPanics(names, flags, eid) THEN flags
    ELSE SetAt(flags, eid, SetFlag(At(flags, eid), Type(comp)))

AddComponent(eid, comp) ==
    /\ cNames' = AddComponentNames(cNames, cFlags, eid, comp)
    /\ cFlags' = AddComponentFlags(cNames, cFlags, eid, comp)
    /\ wpre' = [cNames |-> cNames, cFlags |-> cFlags]
    /\ wlast' = [NoCall EXCEPT !.op = "AddComponent", !.eid = eid, !.comp = comp,
                               !.panicked = AddComponentPanics(cNames, cFlags, eid)]
    /\ UNCHANGED << ids, sysvars, svars >>

\* ------------------------------------------------------------ world.RemoveComponent
\* append(s[:eid], s[eid+1:]...): the slice without its element eid
Splice(s, eid) == SubSeq(s, 1, eid) \o SubSeq(s, eid + 2, Len(s))

\* case components.NAME: the slice expressions w.cNames[:eid] and w.cNames[eid+1:]
\* panic for eid < 0 and for eid + 1 > len(w.cNames), unless len(w.cNames) == eid
\* took the first branch.
RemoveNamePanics(names, eid) == Len(names) # eid /\ ~InRange(names, eid)

RemoveComponentPanics(names, flags, eid, cid) ==
    \/ cid = NAME /\ RemoveNamePanics(names, eid)
    \/ ~InRange(flags, eid)

\* The assignment to w.cNames precedes the indexing of w.cFlags, so it stands when
\* the latter panics.
RemoveComponentNames(names, flags, eid, cid) ==
    IF cid # NAME THEN names
    ELSE IF Len(names) = eid THEN SubSeq(names, 1, eid)
    ELSE IF RemoveNamePanics(names, eid) THEN names
    ELSE Splice(names, eid)

RemoveComponentFlags(names, flags, eid, cid) ==
    IF RemoveComponentPanics(names, flags, eid, cid) THEN flags
    ELSE SetAt(flags, eid, BitAndNot(At(flags, eid), cid))

RemoveComponent(eid, cid) ==
    /\ cNames' = RemoveComponentNames(cNames, cFlags, eid, cid)
    /\ cFlags' = RemoveComponentFlags(cNames, cFlags, eid, cid)
    /\ wpre' = [cNames |-> cNames, cFlags |-> cFlags]
    /\ wlast' = [NoCall EXCEPT !.op = "RemoveComponent", !.eid = eid, !.cid = cid,
                               !.panicked = RemoveComponentPanics(cNames, cFlags, eid, cid)]
    /\ UNCHANGED << ids, sysvars, svars >>

\* --------------------------------------------- world.FindAllEntitiesByComponentType
FindMaskBelow(cid) == cid - 1

\* (1<<uint(cid) - 1): the shift binds tighter than the subtraction
FindMask(cid) == Shl1(cid) - 1

RECURSIVE FindScan(_, _, _)
FindScan(flags, cid, i) ==
    IF i >= Len(flags) THEN << >>
    ELSE (IF BitAnd(At(flags, i), FindMask(cid)) # 0 THEN << i >> ELSE << >>)
         \o FindScan(flags, cid, i + 1)

FindAllEntitiesByComponentType(flags, cid) == FindScan(flags, cid, 0)

FindAllEntities(cid) ==
    /\ wpre' = [cNames |-> cNames, cFlags |-> cFlags]
    /\ wlast' = [NoCall EXCEPT !.op = "FindAllEntitiesByComponentType", !.cid = cid,
                               !.retIds = FindAllEntitiesByComponentType(cFlags, cid)]
    /\ UNCHANGED << cNames, cFlags, ids, sysvars, svars >>

\* ------------------------------------------------------------------------ world.New
\* ------------------------------------------------------- World.AddSystem, Update
\* The World that has AddSystem and Update is the later one, whose source is not
\* at hand: the two are written from the specification, over the slices of the
\* world above (the nameReader reads the names as the exported field CNames).
MaxSystems == 2
MaxUpdates == 1

\* The buffers a nameReader can be constructed with.
Buffers == {1, 2}

\* fmt.Fprintf(s.out, string(n)) with no operands: a format without verb is
\* written as it is, and a lone "%" is written as "%!(NOVERB)".
Fprintf(format) == IF format = "%" THEN "%!(NOVERB)" ELSE format

RECURSIVE NameReaderUpdateBackwards(_, _)
NameReaderUpdateBackwards(names, k) ==
    IF k > Len(names) THEN ""
    ELSE NameReaderUpdateBackwards(names, k + 1) \o Fprintf(names[k])

\* for _, n := range s.w.CNames { fmt.Fprintf(s.out, string(n)) }, from the k-th
\* name on: what one tick of a nameReader writes.
RECURSIVE NameReaderUpdate(_, _)
NameReaderUpdate(names, k) ==
    IF k > Len(names) THEN ""
    ELSE Fprintf(names[k]) \o NameReaderUpdate(names, k + 1)

\* Registers a system.
AddSystem(b) ==
    /\ Len(systems) < MaxSystems
    /\ systems' = Append(systems, b)
    /\ wpre' = [cNames |-> cNames, cFlags |-> cFlags]
    /\ wlast' = [NoCall EXCEPT !.op = "AddSystem"]
    /\ UNCHANGED << cNames, cFlags, ids, outs, updates, svars >>

\* The systems Update invokes, in the order it invokes them: every registered
\* system once, in registration order.
UpdateOrder(n) == [k \in 1 .. n |-> k]

\* The ticks of the systems order[k], order[k+1], ... on the buffers bufs.
RECURSIVE RunSystems(_, _, _, _)
RunSystems(order, k, names, bufs) ==
    IF k > Len(order) THEN bufs
    ELSE RunSystems(order, k + 1, names,
                    [bufs EXCEPT ![systems[order[k]]] = @ \o NameReaderUpdate(names, 1)])

Update ==
    /\ updates < MaxUpdates
    /\ updates' = updates + 1
    /\ outs' = RunSystems(UpdateOrder(Len(systems)), 1, cNames, outs)
    /\ wpre' = [cNames |-> cNames, cFlags |-> cFlags]
    /\ wlast' = [NoCall EXCEPT !.op = "Update",
                               !.ticks = UpdateOrder(Len(systems)), !.before = outs]
    /\ UNCHANGED << cNames, cFlags, ids, systems, svars >>

WorldInit ==
    /\ cNames = << >>
    /\ cFlags = << >>
    /\ ids = << >>
    /\ wpre = [cNames |-> << >>, cFlags |-> << >>]
    /\ wlast = NoCall
    /\ systems = << >>
    /\ outs = [b \in Buffers |-> ""]
    /\ updates = 0

\* The worlds that AddEntity and AddComponent calls build: up to MaxEntities
\* entities, each unnamed with mask 0 or named with the NAME bit set.
SysWorlds ==
    UNION {[1 .. n -> {""} \cup Names] : n \in 0 .. MaxEntities}

\* The systems are registered and updated on a world built before, as the test of
\* the nameReader does.
SysWorldInit ==
    /\ cNames \in SysWorlds
    /\ cFlags = [k \in 1 .. Len(cNames) |-> IF cNames[k] = "" THEN 0 ELSE NAME]
    /\ ids = [k \in 1 .. Len(cNames) |-> k - 1]
    /\ wpre = [cNames |-> << >>, cFlags |-> << >>]
    /\ wlast = NoCall
    /\ systems = << >>
    /\ outs = [b \in Buffers |-> ""]
    /\ updates = 0

SysNext ==
    \/ \E b \in Buffers : AddSystem(b)
    \/ Update

\* The masks that AddComponent calls with components of the three types leave:
\* any combination of the three bits.
Masks == 0 .. (UNKNOWN + NAME + POSITION)

\* Worlds of up to MaxEntities entities with such masks, to be searched.
FindWorldInit ==
    /\ cFlags \in UNION {[1 .. n -> Masks] : n \in 0 .. MaxEntities}
    /\ cNames = [k \in 1 .. Len(cFlags) |-> ""]
    /\ ids = [k \in 1 .. Len(cFlags) |-> k - 1]
    /\ wpre = [cNames |-> << >>, cFlags |-> << >>]
    /\ wlast = NoCall
    /\ systems = << >>
    /\ outs = [b \in Buffers |-> ""]
    /\ updates = 0

FindNext == \E cid \in ComponentBits : FindAllEntities(cid)

WorldNext ==
    \/ AddEntity
    \/ \E eid \in EidInputs, comp \in Names : AddComponent(eid, comp)
    \/ \E eid \in EidInputs, cid \in ComponentBits : RemoveComponent(eid, cid)
    \/ \E cid \in ComponentBits : FindAllEntities(cid)

\* ============================================================ the server (registry)
MaxGames == 2
MaxPlayers == 3

\* The nil *websocket.Conn; the websockets themselves are numbered from 1.
Nil == 0

\* game.GameMode{}: Players is a nil slice
GameModeZero == [Players |-> << >>]

\* game.GameState{}: a struct without fields
GameStateZero == [fields |-> {}]

\* const ( ALIVE PlayerCondition = 1 << iota; DOWN; DEAD )
ALIVE == 1
DOWN == 2
DEAD == 4

PlayerConditions == {ALIVE, DOWN, DEAD}

\* game.PlayerState{}
PlayerStateZero == [x |-> 0, y |-> 0, condition |-> 0]

\* uuid.New().String(): a random version-4 UUID, modelled as a token no earlier
\* call has produced.
Tokens == 1 .. (MaxPlayers + 1)

Methods == {"POST", "GET", "PUT", "PATCH", "OPTIONS"}

\* What reading and decoding a request body can give: no body at all, a read error,
\* bytes that are no JSON, JSON that does not fit the request type (an array, or a
\* string for the gameid), or the decoded request.
NilBody == "nil-body"
ReadError == "read-error"
BadJSON == "bad-json"
Mismatch == "mismatched-json"
JSON == "json"

\* The bodies for which json.Unmarshal returns an error.
Undecodable == {BadJSON, Mismatch}

Usernames == {"", "bob"}

GameIdInputs == -1 .. MaxGames

\* A body that does not decode leaves the request at its zero value.
JoinBodies ==
    [kind : {ReadError, BadJSON, Mismatch}, username : {""}, gameid : {0}]
        \cup [kind : {JSON}, username : Usernames, gameid : GameIdInputs]

\* CreateGameRequest has no fields: the one JSON body is {}.
CreateBodies ==
    [kind : {NilBody, ReadError, BadJSON, Mismatch, JSON}, username : {""}, gameid : {0}]

Registry ==
    [gameModes |-> gameModes, gameStates |-> gameStates,
     playerStates |-> playerStates, connections |-> connections,
     sessions |-> sessions]

NoRequest ==
    [op |-> "none", method |-> "", body |-> [kind |-> "", username |-> "", gameid |-> 0], status |-> 0, error |-> "",
     cookie |-> {}, gameid |-> -1, failed |-> FALSE, slot |-> -1,
     session |-> 0, origin |-> "", conn |-> 0, loops |-> 0]

\* No frames: the last step was no broadcast tick.
NoTick == [ran |-> FALSE, outcome |-> << >>, written |-> << >>]

\* The goroutines in which net/http serves join requests at the same time.
MaxHandlers == 2

Handlers == 1 .. MaxHandlers

\* A handler goroutine that is not inside joinGame.
IdleJoin == [pc |-> "idle", gameid |-> 0, ID |-> 0]

\* ---------------------------------------------------------------- Server.createGame
CreateGameIdOffByOne(modes) == Len(modes)

\* uResponse.GameID = len(s.gameModes) - 1, taken after the appends
CreateGameId(modes) == Len(modes) - 1

\* s.gameModes = append(s.gameModes, &game.GameMode{})
CreateGameModes(modes) == Append(modes, GameModeZero)

\* s.gameStates = append(s.gameStates, &game.GameState{})
CreateGameStates(states) == Append(states, GameStateZero)

\* An unrecovered panic of a goroutine ends the process: nothing is served after.
Crashed == bpc = "crashed"

\* The direct call, as the tests make it: the returned error is always nil.
createGame ==
    /\ ~Crashed
    /\ Len(gameModes) < MaxGames
    /\ gameModes' = CreateGameModes(gameModes)
    /\ gameStates' = CreateGameStates(gameStates)
    /\ gameIds' = Append(gameIds, CreateGameId(gameModes'))
    /\ spre' = Registry
    /\ slast' = [NoRequest EXCEPT !.op = "createGame", !.status = 200,
                                  !.gameid = CreateGameId(gameModes')]
    /\ btick' = NoTick
    /\ UNCHANGED << playerStates, connections, sessions, minted, joins, connvars,
                    unsynced, bprev, wvars, jh >>

\* ------------------------------------------------------ Server.marshalBodyToRequest
MarshalBodyToRequestAnyMethod(method, body) ==
    IF body.kind = NilBody THEN "Bad Request."
    ELSE IF body.kind = ReadError THEN "Internal Server Error."
    ELSE IF body.kind \in Undecodable THEN "Bad request; Improper JSON."
    ELSE ""

\* The error it returns, "" for nil.
MarshalBodyToRequest(method, body) ==
    IF body.kind = NilBody \/ method # "POST" THEN "Bad Request."
    ELSE IF body.kind = ReadError THEN "Internal Server Error."
    ELSE IF body.kind \in Undecodable THEN "Bad request; Improper JSON."
    ELSE ""

\* The bodies the function is called with: those of a CreateGameRequest and a JSON
\* body of a JoinGameRequest.
MarshalBodies == CreateBodies \cup {[kind |-> JSON, username |-> "bob", gameid |-> 0]}

\* The direct call, as the tests make it; the error comes back in slast.error.
marshalBodyToRequest(method, body) ==
    /\ spre' = Registry
    /\ slast' = [NoRequest EXCEPT !.op = "marshalBodyToRequest", !.method = method,
                                  !.body = body,
                                  !.error = MarshalBodyToRequest(method, body),
                                  !.failed = MarshalBodyToRequest(method, body) # ""]
    /\ btick' = NoTick
    /\ UNCHANGED << gameModes, gameStates, gameIds, playerStates, connections,
                    sessions, minted, joins, connvars, unsynced, bprev, wvars, jh >>

\* ---------------------------------------------------------------- Server.CreateGame
CreateGameErrorStatusOK(error) == 200

\* w.WriteHeader(http.StatusInternalServerError) for every error of the body
CreateGameErrorStatus(error) == 500

CreateGame(method, body) ==
    /\ spre' = Registry
    /\ IF method = "OPTIONS"
       THEN /\ slast' = [NoRequest EXCEPT !.op = "CreateGame", !.method = method,
                                          !.body = body, !.status = 200]
            /\ UNCHANGED << gameModes, gameStates, gameIds >>
       ELSE IF MarshalBodyToRequest(method, body) # ""
       THEN /\ slast' = [NoRequest EXCEPT !.op = "CreateGame", !.method = method,
                                          !.body = body,
                                          !.status = CreateGameErrorStatus(
                                                         MarshalBodyToRequest(method, body)),
                                          !.error = MarshalBodyToRequest(method, body),
                                          !.failed = TRUE]
            /\ UNCHANGED << gameModes, gameStates, gameIds >>
       ELSE /\ Len(gameModes) < MaxGames
            /\ gameModes' = CreateGameModes(gameModes)
            /\ gameStates' = CreateGameStates(gameStates)
            /\ gameIds' = Append(gameIds, CreateGameId(gameModes'))
            /\ slast' = [NoRequest EXCEPT !.op = "CreateGame", !.method = method,
                                          !.body = body, !.status = 200,
                                          !.gameid = CreateGameId(gameModes')]
    /\ btick' = NoTick
    /\ UNCHANGED << playerStates, connections, sessions, minted, joins, connvars,
                    unsynced, bprev, wvars, jh >>

\* ------------------------------------------------------------------ Server.joinGame
\* s.gameModes[req.GameID] panics when req.GameID is no index of gameModes; the
\* two appends before it have taken effect by then.
JoinGamePanics(modes, gameid) == ~InRange(modes, gameid)

JoinGameModesPrepend(modes, gameid, ID) ==
    IF JoinGamePanics(modes, gameid) THEN modes
    ELSE [modes EXCEPT ![gameid + 1].Players = << ID >> \o @]

\* s.gameModes[req.GameID].Players = append(s.gameModes[req.GameID].Players, ID)
JoinGameModes(modes, gameid, ID) ==
    IF JoinGamePanics(modes, gameid) THEN modes
    ELSE [modes EXCEPT ![gameid + 1].Players = Append(@, ID)]

JoinGameConnectionsKept(cs) == cs

\* s.connections = append(s.connections, nil)
JoinGameConnections(cs) == Append(cs, Nil)

\* Session := uuid.New().String(): which of the unused tokens comes out makes no
\* difference to any later step, so the least one is taken.
MintToken(used) ==
    CHOOSE t \in 1 .. (Cardinality(used) + 1) :
        t \notin used /\ \A u \in 1 .. (t - 1) : u \in used

\* joinGame mints the token and returns it; it makes no assignment to s.sessions.
JoinGameSessions(sess, token, ID) == sess

\* ------------------------------------------------------------------ Server.JoinGame
InvalidGameIDOffByOne(states, body) ==
    body.gameid > Len(states) \/ body.gameid < 0

\* (req.GameID > len(s.gameStates)-1) || (req.GameID < 0)
InvalidGameID(states, body) ==
    body.gameid > Len(states) - 1 \/ body.gameid < 0

InvalidUsernameUnchecked(body) == FALSE

\* req.Username == ""
InvalidUsername(body) == body.username = ""

JoinGameCookieNone(token) == {}

\* http.SetCookie(w, &http.Cookie{Name: "SessionID", Value: resp.Token}), reached
\* only after joinGame has returned
JoinGameCookie(token) == {token}

\* The handler's response: status 200 unless WriteHeader was called; the cookie
\* field holds the values of the SessionID cookies set. A panic inside the handler
\* is recovered by net/http, which drops the connection without a response
\* (status 0).
JoinGameSteps(method, body) ==
    /\ ~Crashed
    /\ spre' = Registry
    /\ btick' = NoTick
    /\ UNCHANGED << gameStates, gameIds, connvars, bprev, wvars, jh >>
    /\ LET answer(status, error) ==
               /\ slast' = [NoRequest EXCEPT !.op = "JoinGame", !.method = method,
                                             !.body = body, !.status = status,
                                             !.error = error, !.failed = status # 200]
               /\ UNCHANGED << gameModes, playerStates, connections, sessions, minted,
                               joins >>
       IN  IF method = "OPTIONS" THEN answer(200, "")
           ELSE IF body.kind = ReadError THEN answer(500, "Internal Server Error")
           ELSE IF body.kind \in Undecodable
           THEN answer(400, "Incorrect Input for Username or GameID; Expected: Username(string); GameID(int);")
           ELSE IF InvalidGameID(gameStates, body) THEN answer(400, "Invalid GameID")
           ELSE IF InvalidUsername(body) THEN answer(400, "Invalid Username")
           ELSE /\ Len(playerStates) < MaxPlayers
                /\ playerStates' = Append(playerStates, PlayerStateZero)
                /\ connections' = JoinGameConnections(connections)
                /\ LET ID == Len(playerStates') - 1
                   IN  IF JoinGamePanics(gameModes, body.gameid)
                       THEN /\ slast' = [NoRequest EXCEPT
                                            !.op = "JoinGame", !.method = method,
                                            !.body = body, !.failed = TRUE, !.slot = ID]
                            /\ UNCHANGED << gameModes, sessions, minted, joins >>
                       ELSE LET token == MintToken(minted)
                            IN
                              /\ joins' = Append(joins, [token |-> token, slot |-> ID,
                                                         gameid |-> body.gameid])
                              /\ gameModes' = JoinGameModes(gameModes, body.gameid, ID)
                              /\ sessions' = JoinGameSessions(sessions, token, ID)
                              /\ minted' = minted \cup {token}
                              /\ slast' = [NoRequest EXCEPT
                                              !.op = "JoinGame", !.method = method,
                                              !.body = body, !.status = 200,
                                              !.cookie = JoinGameCookie(token),
                                              !.slot = ID]

\* The handler run to its end before the next tick begins: the tick reads what the
\* handler wrote.
JoinGame(method, body) ==
    /\ JoinGameSteps(method, body)
    /\ UNCHANGED unsynced

\* ------------------------------------------- Server.joinGame, statement by statement
\* Handler h has passed the checks of JoinGame for game id g and runs the first
\* statement of joinGame: s.playerStates = append(s.playerStates, &game.PlayerState{})
JoinAppendPlayerStates(h, g) ==
    /\ ~Crashed
    /\ jh[h].pc = "idle"
    /\ InRange(gameStates, g)
    /\ InRange(gameModes, g)
    /\ Len(playerStates) < MaxPlayers
    /\ playerStates' = Append(playerStates, PlayerStateZero)
    /\ jh' = [jh EXCEPT ![h] = [pc |-> "connections", gameid |-> g, ID |-> 0]]
    /\ UNCHANGED << gameModes, gameStates, connections, sessions, minted, gameIds,
                    spre, slast, joins, connvars, btick, unsynced, bprev, wvars >>

\* s.connections = append(s.connections, nil)
JoinAppendConnections(h) ==
    /\ ~Crashed
    /\ jh[h].pc = "connections"
    /\ connections' = JoinGameConnections(connections)
    /\ jh' = [jh EXCEPT ![h].pc = "ID"]
    /\ UNCHANGED << gameModes, gameStates, playerStates, sessions, minted, gameIds,
                    spre, slast, joins, connvars, btick, unsynced, bprev, wvars >>

\* ID := len(s.playerStates) - 1
JoinReadID(h) ==
    /\ ~Crashed
    /\ jh[h].pc = "ID"
    /\ jh' = [jh EXCEPT ![h].pc = "Players", ![h].ID = Len(playerStates) - 1]
    /\ UNCHANGED << gameModes, gameStates, playerStates, connections, sessions,
                    minted, gameIds, spre, slast, joins, connvars, btick, unsynced,
                    bprev, wvars >>

\* s.gameModes[req.GameID].Players = append(..., ID), the token, and the return to
\* JoinGame, which sets the cookie.
JoinAppendPlayers(h) ==
    /\ ~Crashed
    /\ jh[h].pc = "Players"
    /\ gameModes' = JoinGameModes(gameModes, jh[h].gameid, jh[h].ID)
    /\ minted' = minted \cup {MintToken(minted)}
    /\ joins' = Append(joins, [token |-> MintToken(minted), slot |-> jh[h].ID,
                               gameid |-> jh[h].gameid])
    /\ sessions' = JoinGameSessions(sessions, MintToken(minted), jh[h].ID)
    /\ spre' = Registry
    /\ slast' = [NoRequest EXCEPT !.op = "JoinGame", !.method = "POST",
                                  !.body = [kind |-> JSON, username |-> "bob",
                                            gameid |-> jh[h].gameid],
                                  !.status = 200,
                                  !.cookie = JoinGameCookie(MintToken(minted)),
                                  !.slot = jh[h].ID]
    /\ btick' = NoTick
    /\ jh' = [jh EXCEPT ![h] = IdleJoin]
    /\ UNCHANGED << gameStates, playerStates, connections, gameIds, connvars,
                    unsynced, bprev, wvars >>

\* ----------------------------------------------------------------- Server.NewClient
MaxConns == 2

\* r.Cookie("SessionID") returned an error: the request has no such cookie.
NoCookie == 0

\* config.AllowedOrigins as main sets it
AllowedOrigins == {"http://localhost:3000"}

Origins == AllowedOrigins \cup {"http://localhost:8080"}

UnknownSessionUnchecked(sess, cookie) == FALSE

\* if _, ok := s.sessions[sessionId.Value]; !ok
UnknownSession(sess, cookie) == cookie \notin DOMAIN sess

\* id := s.sessions[sessionId.Value]: a missing key gives Go's zero value
SessionSlot(sess, cookie) == IF cookie \in DOMAIN sess THEN sess[cookie] ELSE 0

OriginAllowedAlways(origin) == TRUE

\* Upgrader.CheckOrigin
OriginAllowed(origin) == origin \in AllowedOrigins

NewClientPlayerStateKept(old) == old

\* s.playerStates[id] = &game.PlayerState{}
NewClientPlayerState(old) == PlayerStateZero

NoLoop == [slot |-> -1, pc |-> "none", dead |-> FALSE]

\* loops is the number of read loops started before the call. Status 101 is the
\* completed upgrade. s.connections[id] = c panics when id is no
\* index of connections: the websocket is open by then, but it is bound to no slot
\* and no read loop is started.
NewClient(cookie, origin) ==
    /\ ~Crashed
    /\ spre' = Registry
    /\ btick' = NoTick
    /\ UNCHANGED << gameModes, gameStates, sessions, minted, gameIds, joins, bpc,
                    stopSent, unsynced, bprev, wvars, jh >>
    /\ LET refuse ==
               /\ slast' = [NoRequest EXCEPT !.op = "NewClient", !.session = cookie,
                                             !.origin = origin, !.status = 403,
                                             !.failed = TRUE, !.loops = Len(readLoops)]
               /\ UNCHANGED << playerStates, connections, conns, readLoops >>
       IN  IF cookie = NoCookie THEN refuse
           ELSE IF UnknownSession(sessions, cookie) THEN refuse
           ELSE IF ~OriginAllowed(origin) THEN refuse
           ELSE /\ conns < MaxConns
                /\ conns' = conns + 1
                /\ LET id == SessionSlot(sessions, cookie)
                   IN  IF ~InRange(connections, id)
                       THEN /\ readLoops' = Append(readLoops, NoLoop)
                            /\ slast' = [NoRequest EXCEPT
                                            !.op = "NewClient", !.session = cookie,
                                            !.origin = origin, !.status = 101,
                                            !.failed = TRUE, !.conn = conns',
                                            !.loops = Len(readLoops)]
                            /\ UNCHANGED << playerStates, connections >>
                       ELSE /\ connections' = SetAt(connections, id, conns')
                            /\ playerStates' =
                                  SetAt(playerStates, id,
                                        NewClientPlayerState(At(playerStates, id)))
                            /\ readLoops' = Append(readLoops,
                                    [slot |-> id, pc |-> "reading", dead |-> FALSE])
                            /\ slast' = [NoRequest EXCEPT
                                            !.op = "NewClient", !.session = cookie,
                                            !.origin = origin, !.status = 101,
                                            !.slot = id, !.conn = conns',
                                            !.loops = Len(readLoops)]

\* ------------------------------------------------------ Server.ReadIncomingMessages
\* What c.ReadMessage() and the decoding give in one turn of the loop.
ReadMessages == {ReadError, BadJSON, JSON}

\* if err != nil { log.Printf(...); continue }: the loop goes on to read again
ReadLoopAfterError == "reading"

ReadLoopAfterBadJSONExits == "exited"

\* if err != nil { log.Printf("Improper JSON recieved."); continue }
ReadLoopAfterBadJSON == "reading"

\* The game.PlayerState a JSON frame decodes to.
ProposedState == [x |-> 1, y |-> 1, condition |-> 0]

\* func (s *Server) ValidateAndApplyState(proposed, index) error { return nil }:
\* the player states after the call are those before it.
ValidateAndApplyState(pstates, proposed, index) == pstates

\* One turn of the loop of websocket c. A websocket whose read has failed fails
\* every later read.
ReadIncomingMessages(c, msg) ==
    /\ ~Crashed
    /\ c \in 1 .. conns
    /\ readLoops[c].pc = "reading"
    /\ readLoops[c].dead => msg = ReadError
    /\ readLoops' =
          IF msg = ReadError
          THEN [readLoops EXCEPT ![c].dead = TRUE, ![c].pc = ReadLoopAfterError]
          ELSE IF msg = BadJSON
          THEN [readLoops EXCEPT ![c].pc = ReadLoopAfterBadJSON]
          ELSE readLoops
    /\ playerStates' =
          IF msg = JSON
          THEN ValidateAndApplyState(playerStates, ProposedState, readLoops[c].slot)
          ELSE playerStates
    /\ spre' = Registry
    /\ slast' = [NoRequest EXCEPT !.op = "ReadIncomingMessages", !.body.kind = msg,
                                  !.slot = readLoops[c].slot, !.conn = c,
                                  !.failed = (msg # JSON)]
    /\ btick' = NoTick
    /\ UNCHANGED << gameModes, gameStates, connections, sessions,
                    minted, gameIds, joins, conns, bpc, stopSent, unsynced, bprev,
                    wvars, jh >>

\* --------------------------------------------------------- Server.BeginUpdatePush
\* How the two WriteJSON calls to one player end: both succeed, the first fails,
\* or the second fails.
Outcomes == {"ok", "fail1", "fail2"}

\* The argument of a WriteJSON call that succeeded.
PlayerStateFrame(pstates, j) ==
    [arg |-> "playerStates", index |-> j, json |-> At(pstates, j)]

GameStateFrame(gstates, i) ==
    [arg |-> "gameStates", index |-> i, json |-> At(gstates, i)]

PlayerWritesGameStateFirst(conn, out, psFrame, gsFrame) ==
    IF conn = Nil THEN << >>
    ELSE IF out = "fail1" THEN << >>
    ELSE IF out = "fail2" THEN << gsFrame >>
    ELSE << gsFrame, psFrame >>

SkipsPlayerAlways(conn) == TRUE

\* if s.connections[j] == nil { continue }
SkipsPlayer(conn) == conn = Nil

AfterPlayerStateErrorGoesOn(gsFrame) == << gsFrame >>

\* continue, after the error of the first WriteJSON: the second is not called
AfterPlayerStateError(gsFrame) == << >>

\* The body of the inner loop for one player: nothing for a nil connection, then
\* the PlayerState, then the GameState, each error skipping the rest.
PlayerWrites(conn, out, psFrame, gsFrame) ==
    IF SkipsPlayer(conn) THEN << >>
    ELSE IF out = "fail1" THEN AfterPlayerStateError(gsFrame)
    ELSE IF out = "fail2" THEN << psFrame >>
    ELSE << psFrame, gsFrame >>

ErrorReturnsFromTick(conn, out) == conn # Nil /\ out # "ok"

\* continue (after either error): the tick goes on with the next player
ErrorEndsTick(conn, out) == FALSE

\* After the range loops the for loop selects again: no error leaves it.
TickEndsLoop(ended, failed) == ended

\* for _, j := range gm.Players, from the k-th player on; acc holds what has been
\* written to each slot's websocket and whether the tick was cut short.
RECURSIVE PushPlayers(_, _, _, _, _)
PushPlayers(players, k, i, outcome, acc) ==
    IF k > Len(players) \/ acc.ended THEN acc
    ELSE LET j == players[k]
             conn == At(connections, j)
             wr == PlayerWrites(conn, outcome[j + 1],
                                PlayerStateFrame(playerStates, j),
                                GameStateFrame(gameStates, i))
         IN  PushPlayers(players, k + 1, i, outcome,
                 [written |-> [acc.written EXCEPT ![j + 1] = @ \o wr],
                  ended |-> ErrorEndsTick(conn, outcome[j + 1])])

\* for i, gm := range s.gameModes, from game i on
RECURSIVE PushGames(_, _, _)
PushGames(i, outcome, acc) ==
    IF i >= Len(gameModes) \/ acc.ended THEN acc
    ELSE PushGames(i + 1, outcome,
                   PushPlayers(At(gameModes, i).Players, 1, i, outcome, acc))

\* The tick reads gameModes, Players and connections without lock or channel, while
\* the handlers write them: a data race. For a slot allocated by a join that nothing
\* orders before the tick, the tick can read the player list that holds the slot
\* and s.connections as it was before the join's append: the index is out of range.
StaleIndex ==
    \E i \in 0 .. (Len(gameModes) - 1) :
        \E k \in 1 .. Len(At(gameModes, i).Players) :
            At(gameModes, i).Players[k] >= Len(connections) - unsynced

\* case <-ticker.C: one tick. outcome says, per slot, how the writes to its
\* websocket end; a slot without websocket is written to by nobody. stale says
\* whether the tick reads an index that is out of range of the s.connections it
\* sees: s.connections[j] panics in the goroutine, which ends the process. btick
\* records a tick that ran to its end.
TickSteps ==
    \E outcome \in [1 .. Len(connections) -> Outcomes], stale \in BOOLEAN :
    /\ bpc = "running"
    /\ stale => StaleIndex
    /\ \A j \in 1 .. Len(connections) :
          connections[j] = Nil \/ stale => outcome[j] = "ok"
    /\ LET acc == PushGames(0, outcome,
                      [written |-> [j \in 1 .. Len(connections) |-> << >>],
                       ended |-> FALSE])
           failed == \E j \in 1 .. Len(connections) : outcome[j] # "ok"
       IN  IF stale
           THEN /\ btick' = NoTick
                /\ bpc' = "crashed"
                /\ slast' = [NoRequest EXCEPT !.op = "BeginUpdatePush",
                                              !.failed = TRUE]
           ELSE /\ btick' = [ran |-> TRUE, outcome |-> outcome,
                             written |-> acc.written]
                /\ bpc' = IF TickEndsLoop(acc.ended, failed) THEN "stopped"
                          ELSE "running"
                /\ slast' = [NoRequest EXCEPT !.op = "BeginUpdatePush"]
    /\ spre' = Registry
    /\ UNCHANGED << gameModes, gameStates, playerStates, connections, sessions,
                    minted, gameIds, joins, conns, readLoops, stopSent, unsynced,
                    wvars, jh >>

Tick ==
    /\ TickSteps
    /\ UNCHANGED bprev

\* A tick of which the next one keeps the record: what the ticker's previous
\* firing did, if no other step came between.
PushTick ==
    /\ TickSteps
    /\ bprev' = btick

AfterStopGoesOn == "running"

\* case <-s.stopChan: ticker.Stop(); return
AfterStop == "stopped"

\* case <-s.stopChan: a value sent on the channel is received, the ticker is
\* stopped and BeginUpdatePush returns.
Stop ==
    /\ bpc = "running"
    /\ stopSent' = TRUE
    /\ bpc' = AfterStop
    /\ spre' = Registry
    /\ slast' = [NoRequest EXCEPT !.op = "stop"]
    /\ btick' = NoTick
    /\ UNCHANGED << gameModes, gameStates, playerStates, connections, sessions,
                    minted, gameIds, joins, conns, readLoops, unsynced, bprev, wvars, jh >>

\* A goroutine reaches s.stopChan <- v. The channel of server.New is unbuffered:
\* the sender waits there until the select of BeginUpdatePush takes the value.
SendStop ==
    /\ ~Crashed
    /\ ~stopSent
    /\ stopSent' = TRUE
    /\ spre' = Registry
    /\ slast' = [NoRequest EXCEPT !.op = "send stop"]
    /\ btick' = NoTick
    /\ UNCHANGED << gameModes, gameStates, playerStates, connections, sessions,
                    minted, gameIds, joins, conns, readLoops, bpc, unsynced, bprev,
                    wvars, jh >>

\* The select takes the case of the stop channel, on which a sender waits.
ReceiveStop ==
    /\ stopSent
    /\ Stop

\* ----------------------------------------------------------------------- server.New
ServerInit ==
    /\ gameModes = << >>
    /\ gameStates = << >>
    /\ playerStates = << >>
    /\ connections = << >>
    /\ sessions = [t \in {} |-> 0]
    /\ minted = {}
    /\ gameIds = << >>
    /\ joins = << >>
    /\ conns = 0
    /\ readLoops = << >>
    /\ bpc = "running"
    /\ stopSent = FALSE
    /\ btick = NoTick
    /\ unsynced = 0
    /\ bprev = NoTick
    /\ jh = [h \in Handlers |-> IdleJoin]
    /\ spre = [gameModes |-> << >>, gameStates |-> << >>, playerStates |-> << >>,
               connections |-> << >>, sessions |-> [t \in {} |-> 0]]
    /\ slast = NoRequest

ServerNext ==
    \/ createGame
    \/ \E method \in Methods, body \in MarshalBodies :
          marshalBodyToRequest(method, body)
    \/ \E method \in Methods, body \in CreateBodies : CreateGame(method, body)
    \/ \E method \in Methods, body \in JoinBodies : JoinGame(method, body)
    \/ \E cookie \in {NoCookie} \cup Tokens, origin \in Origins :
          NewClient(cookie, origin)

\* A Server whose session map holds entries. No statement of the package assigns to
\* s.sessions, so the handlers never reach such a state from server.New: the map is
\* filled here as code of package server can fill it (the field is unexported),
\* two tokens, token t standing for player slot t-1. Everything else is as
\* server.New leaves it.
SeedSessions == [t \in {1, 2} |-> t - 1]

ConnInit ==
    /\ gameModes = << >>
    /\ gameStates = << >>
    /\ playerStates = << >>
    /\ connections = << >>
    /\ sessions = SeedSessions
    /\ minted = DOMAIN SeedSessions
    /\ gameIds = << >>
    /\ joins = << >>
    /\ conns = 0
    /\ readLoops = << >>
    /\ bpc = "running"
    /\ stopSent = FALSE
    /\ btick = NoTick
    /\ unsynced = 0
    /\ bprev = NoTick
    /\ jh = [h \in Handlers |-> IdleJoin]
    /\ spre = [gameModes |-> << >>, gameStates |-> << >>, playerStates |-> << >>,
               connections |-> << >>, sessions |-> SeedSessions]
    /\ slast = NoRequest

ConnJoinBodies ==
    {[kind |-> JSON, username |-> "bob", gameid |-> g] : g \in 0 .. (MaxGames - 1)}

\* No cookie, the tokens of the session map, and the first token a join mints.
ConnCookies == {NoCookie} \cup DOMAIN SeedSessions \cup {MintToken(DOMAIN SeedSessions)}

\* Players join as long as a websocket can still be opened for the new slot.
ConnJoinGame(body) ==
    /\ Len(playerStates) < MaxConns
    /\ JoinGame("POST", body)

ConnNext ==
    \/ createGame
    \/ \E body \in ConnJoinBodies : ConnJoinGame(body)
    \/ \E cookie \in ConnCookies, origin \in Origins : NewClient(cookie, origin)
    \/ \E c \in 1 .. MaxConns, msg \in ReadMessages : ReadIncomingMessages(c, msg)
    \/ Tick
    \/ Stop

\* ------------------------------------------------------------------ specifications
Init == WorldInit /\ ServerInit

\* The world on its own: the registry stays as server.New left it.
Next == WorldNext

Spec == Init /\ [][Next]_vars

\* The world with its systems: the registry stays as server.New left it.
SysInit == SysWorldInit /\ ServerInit

SysSpec == SysInit /\ [][SysNext]_vars

\* The search on its own, over worlds with every combination of component bits.
FindInit == FindWorldInit /\ ServerInit

FindSpec == FindInit /\ [][FindNext]_vars

\* The registry on its own: the world stays as world.New left it.
ServerSpec == Init /\ [][ServerNext]_vars

\* The handlers running beside the update push, with nothing that orders what
\* a join writes before what a tick reads.
RaceJoinGame(body) ==
    /\ JoinGameSteps("POST", body)
    /\ unsynced' = unsynced + (Len(playerStates') - Len(playerStates))

\* The writes of the oldest such join have reached the BeginUpdatePush goroutine.
Settle ==
    /\ ~Crashed
    /\ unsynced > 0
    /\ unsynced' = unsynced - 1
    /\ UNCHANGED << gameModes, gameStates, playerStates, connections, sessions,
                    minted, gameIds, spre, slast, joins, connvars, btick, bprev,
                    wvars, jh >>

RaceNext ==
    \/ createGame
    \/ \E body \in ConnJoinBodies : RaceJoinGame(body)
    \/ \E cookie \in ConnCookies, origin \in Origins : NewClient(cookie, origin)
    \/ Settle
    \/ Tick
    \/ Stop

RaceSpec == Init /\ [][RaceNext]_vars

\* s.connections[j], s.playerStates[j] or s.gameStates[i] of the tick's loops is an
\* index expression out of range.
TickIndexPanics ==
    \E i \in 0 .. (Len(gameModes) - 1) :
        \E k \in 1 .. Len(At(gameModes, i).Players) :
            \/ ~InRange(connections, At(gameModes, i).Players[k])
            \/ ~InRange(playerStates, At(gameModes, i).Players[k])
            \/ ~InRange(gameStates, i)

\* A tick that runs between two statements of the join handlers: it reads the
\* slices as they are at that moment.
JoinRaceTick ==
    \/ /\ ~TickIndexPanics
       /\ Tick
    \/ /\ TickIndexPanics
       /\ bpc = "running"
       /\ bpc' = "crashed"
       /\ btick' = NoTick
       /\ spre' = Registry
       /\ slast' = [NoRequest EXCEPT !.op = "BeginUpdatePush", !.failed = TRUE]
       /\ UNCHANGED << gameModes, gameStates, playerStates, connections, sessions,
                       minted, gameIds, joins, conns, readLoops, stopSent, unsynced,
                       bprev, wvars, jh >>

\* Join requests served at the same time, each in its goroutine, beside the
\* update push.
JoinRaceNext ==
    \/ createGame
    \/ \E h \in Handlers, g \in 0 .. (MaxGames - 1) : JoinAppendPlayerStates(h, g)
    \/ \E h \in Handlers : JoinAppendConnections(h)
    \/ \E h \in Handlers : JoinReadID(h)
    \/ \E h \in Handlers : JoinAppendPlayers(h)
    \/ JoinRaceTick

JoinRaceSpec == Init /\ [][JoinRaceNext]_vars

\* A Server with one game whose players, none of them connected yet, hold states
\* of any kind, as code of package server can set them (ValidateAndApplyState is
\* where it would), with the seeded session map.
BindInit ==
    /\ playerStates \in UNION {[1 .. n -> {PlayerStateZero, ProposedState}] :
                                   n \in 1 .. MaxConns}
    /\ connections = [j \in 1 .. Len(playerStates) |-> Nil]
    /\ gameModes = << [Players |-> [j \in 1 .. Len(playerStates) |-> j - 1]] >>
    /\ gameStates = CreateGameStates(<< >>)
    /\ gameIds = << 0 >>
    /\ sessions = SeedSessions
    /\ minted = DOMAIN SeedSessions
    /\ joins = << >>
    /\ conns = 0
    /\ readLoops = << >>
    /\ bpc = "running"
    /\ stopSent = FALSE
    /\ btick = NoTick
    /\ unsynced = 0
    /\ bprev = NoTick
    /\ jh = [h \in Handlers |-> IdleJoin]
    /\ spre = [gameModes |-> << >>, gameStates |-> << >>, playerStates |-> << >>,
               connections |-> << >>, sessions |-> SeedSessions]
    /\ slast = NoRequest

\* Clients connect, and connect again, while the update push sends the states.
BindNext ==
    \/ \E cookie \in ConnCookies, origin \in Origins : NewClient(cookie, origin)
    \/ Tick

\* A Server on which one game has been created, with the seeded session map.
LiveInit ==
    /\ gameModes = CreateGameModes(<< >>)
    /\ gameStates = CreateGameStates(<< >>)
    /\ gameIds = << CreateGameId(gameModes) >>
    /\ playerStates = << >>
    /\ connections = << >>
    /\ sessions = SeedSessions
    /\ minted = DOMAIN SeedSessions
    /\ joins = << >>
    /\ conns = 0
    /\ readLoops = << >>
    /\ bpc = "running"
    /\ stopSent = FALSE
    /\ btick = NoTick
    /\ unsynced = 0
    /\ bprev = NoTick
    /\ jh = [h \in Handlers |-> IdleJoin]
    /\ spre = [gameModes |-> << >>, gameStates |-> << >>, playerStates |-> << >>,
               connections |-> << >>, sessions |-> SeedSessions]
    /\ slast = [NoRequest EXCEPT !.op = "createGame", !.status = 200,
                                 !.gameid = CreateGameId(gameModes)]

\* Players join the one game.
LiveJoinGame == ConnJoinGame([kind |-> JSON, username |-> "bob", gameid |-> 0])

\* The update push from its start to its stop, beside the requests that fill the
\* game and bind the websockets.
LiveNext ==
    \/ LiveJoinGame
    \/ \E cookie \in DOMAIN SeedSessions, origin \in AllowedOrigins :
          NewClient(cookie, origin)
    \/ Tick
    \/ SendStop
    \/ ReceiveStop

\* The ticker fires again and again while the loop runs, and the select, which
\* chooses among its ready cases at random, does not pass over the stop channel
\* for ever while a sender waits on it.
LiveFairness == WF_vars(Tick) /\ WF_vars(ReceiveStop)

\* The update push over successive ticks, beside the requests that fill the games
\* and bind the websockets.
PushNext ==
    \/ createGame
    \/ \E body \in ConnJoinBodies : ConnJoinGame(body)
    \/ \E cookie \in DOMAIN SeedSessions, origin \in AllowedOrigins :
          NewClient(cookie, origin)
    \/ PushTick

\* The registry with its websockets, the read loops and the update push.
ConnSpecInit == WorldInit /\ ConnInit

ConnSpec == ConnSpecInit /\ [][ConnNext]_vars

PushSpec == ConnSpecInit /\ [][PushNext]_vars

BindSpecInit == WorldInit /\ BindInit

BindSpec == BindSpecInit /\ [][BindNext]_vars

LiveSpecInit == WorldInit /\ LiveInit

LiveSpec == LiveSpecInit /\ [][LiveNext]_vars /\ LiveFairness

\* ======================================================================== the claims
Entities == 0 .. (Len(cFlags) - 1)

EntitiesBefore == 0 .. (Len(wpre.cFlags) - 1)

Range(s) == {s[k] : k \in 1 .. Len(s)}

\* C1: the k-th AddEntity call returns k-1, the entity count before the insertion,
\* whatever AddComponent and RemoveComponent calls come in between; the ids come
\* back as 0, 1, 2, ... and none comes back twice.
C1_AddEntityIdsInCallOrder ==
    /\ \A k \in 1 .. Len(ids) : ids[k] = k - 1
    /\ wlast.op = "AddEntity" => wlast.retId = Len(wpre.cFlags)

\* An AddEntity that followed a RemoveComponent which shortened the name slice.
C1_Witness ==
    /\ wlast.op = "AddEntity"
    /\ Len(ids) >= 2
    /\ Len(wpre.cNames) < Len(wpre.cFlags)

\* C2: FindAllEntitiesByComponentType(bit) returns exactly the entities whose
\* presence mask has the bit set, for every component bit.
C2_FindReturnsExactlyTheFlagged ==
    wlast.op = "FindAllEntitiesByComponentType" =>
        Range(wlast.retIds) = {e \in Entities : BitAnd(At(cFlags, e), wlast.cid) # 0}

\* C3: RemoveComponent(id, bit) changes the length of no per-entity slice and
\* leaves the stored name and the mask of every other entity where they were.
C3_RemoveComponentFrame ==
    wlast.op = "RemoveComponent" =>
        /\ Len(cNames) = Len(wpre.cNames)
        /\ Len(cFlags) = Len(wpre.cFlags)
        /\ \A e \in EntitiesBefore \ {wlast.eid} :
              /\ At(cFlags, e) = At(wpre.cFlags, e)
              /\ InRange(wpre.cNames, e) =>
                    InRange(cNames, e) /\ At(cNames, e) = At(wpre.cNames, e)

\* C4: after RemoveComponent(id, bit) on an existing entity the bit is clear in
\* mask[id] and every other bit of mask[id] is as it was.
C4_RemoveComponentClearsTheBit ==
    wlast.op = "RemoveComponent" /\ wlast.eid \in EntitiesBefore =>
        /\ BitAnd(At(cFlags, wlast.eid), wlast.cid) = 0
        /\ \A bit \in ComponentBits \ {wlast.cid} :
              BitAnd(At(cFlags, wlast.eid), bit) = BitAnd(At(wpre.cFlags, wlast.eid), bit)

\* C5: after AddComponent(id, c) on an existing entity, the name slot at id holds
\* c, mask[id] is the previous mask OR c's bit, and the masks and names of all
\* other entities are unchanged.
C5_AddComponentStores ==
    wlast.op = "AddComponent" /\ wlast.eid \in EntitiesBefore =>
        /\ InRange(cNames, wlast.eid)
        /\ At(cNames, wlast.eid) = wlast.comp
        /\ At(cFlags, wlast.eid) = BitOr(At(wpre.cFlags, wlast.eid), NAME)
        /\ Len(cFlags) = Len(wpre.cFlags)
        /\ Len(cNames) = Len(wpre.cNames)
        /\ \A e \in EntitiesBefore \ {wlast.eid} :
              /\ At(cFlags, e) = At(wpre.cFlags, e)
              /\ InRange(cNames, e) => At(cNames, e) = At(wpre.cNames, e)

\* C6: AddComponent is idempotent: in every world state, for every entity id in
\* range and every component, a second identical call leaves the names and the
\* masks as the first call left them.
C6_AddComponentIdempotent ==
    \A eid \in Entities, comp \in Names :
        LET names1 == AddComponentNames(cNames, cFlags, eid, comp)
            flags1 == AddComponentFlags(cNames, cFlags, eid, comp)
        IN  /\ AddComponentNames(names1, flags1, eid, comp) = names1
            /\ AddComponentFlags(names1, flags1, eid, comp) = flags1

\* A completed AddComponent on a world that already held this component on this
\* entity: the second of two identical calls.
C6_Witness ==
    /\ wlast.op = "AddComponent"
    /\ ~wlast.panicked
    /\ At(wpre.cNames, wlast.eid) = wlast.comp
    /\ At(wpre.cFlags, wlast.eid) = NAME
    /\ cNames = wpre.cNames
    /\ cFlags = wpre.cFlags

\* C7: createGame never fails; the N-th call on a fresh server returns N-1; the new
\* game has an empty player list; gameModes and gameStates have the same length
\* after each call. The same holds of the game the CreateGame handler creates for
\* a POST whose body decodes.
C7_CreateGameIds ==
    /\ \A k \in 1 .. Len(gameIds) : gameIds[k] = k - 1
    /\ Len(gameModes) = Len(gameStates)
    /\ slast.op = "createGame" =>
          /\ ~slast.failed
          /\ slast.gameid = Len(spre.gameModes)
          /\ Len(gameModes) = Len(spre.gameModes) + 1
          /\ At(gameModes, slast.gameid).Players = << >>
    /\ slast.op = "CreateGame" /\ slast.method = "POST" /\ slast.body.kind = JSON =>
          /\ slast.status = 200
          /\ slast.gameid = Len(spre.gameModes)
          /\ Len(gameModes) = Len(spre.gameModes) + 1
          /\ At(gameModes, slast.gameid).Players = << >>

\* The second createGame, made after a player joined the first game.
C7_Witness ==
    /\ slast.op = "createGame"
    /\ slast.gameid = 1
    /\ At(gameModes, 0).Players # << >>

\* C8: a JoinGame request whose gameid is negative or at least the game count is
\* answered 400 with the error "Invalid GameID" and without a cookie, and leaves
\* playerStates, connections, every player list and the session map unchanged.
C8_InvalidGameIdRejected ==
    (/\ slast.op = "JoinGame"
     /\ slast.method # "OPTIONS"
     /\ slast.body.kind = JSON
     /\ (slast.body.gameid < 0 \/ slast.body.gameid >= Len(spre.gameModes))) =>
        /\ slast.status = 400
        /\ slast.error = "Invalid GameID"
        /\ slast.cookie = {}
        /\ Registry = spre

\* A join of game 1 (with a username) when only game 0 exists and has a player.
C8_Witness ==
    /\ slast.op = "JoinGame"
    /\ slast.method = "POST"
    /\ slast.body.kind = JSON
    /\ slast.body.username = "bob"
    /\ slast.body.gameid = 1
    /\ Len(gameModes) = 1
    /\ Len(playerStates) = 1

\* C9: a JoinGame request with a valid gameid and an empty username is answered
\* 400 with the error "Invalid Username": no player slot is allocated, no player
\* list grows and no session is recorded.
C9_EmptyUsernameRejected ==
    (/\ slast.op = "JoinGame"
     /\ slast.method # "OPTIONS"
     /\ slast.body.kind = JSON
     /\ InRange(spre.gameModes, slast.body.gameid)
     /\ slast.body.username = "") =>
        /\ slast.status = 400
        /\ slast.error = "Invalid Username"
        /\ slast.cookie = {}
        /\ Registry = spre

\* A join of the existing game 1 with the empty username.
C9_Witness ==
    /\ slast.op = "JoinGame"
    /\ slast.method = "POST"
    /\ slast.body.kind = JSON
    /\ slast.body.username = ""
    /\ slast.body.gameid = 1
    /\ Len(gameModes) = 2
    /\ Len(playerStates) = 1

\* C10: after a successful JoinGame the returned token is a key of the session map
\* and maps to the player slot this join allocated.
C10_TokenRecorded ==
    slast.op = "JoinGame" /\ slast.cookie # {} =>
        \A token \in slast.cookie :
            /\ token \in DOMAIN sessions
            /\ sessions[token] = slast.slot

\* C11: a successful JoinGame allocates exactly one new player slot, whose index is
\* the player count before the call, with a zero PlayerState and a nil connection;
\* it appends that index to the end of the target game's player list and leaves
\* every other game's player list and every existing player slot as it was.
C11_JoinAllocatesOneSlot ==
    slast.op = "JoinGame" /\ slast.cookie # {} =>
        LET n == Len(spre.playerStates)
            g == slast.body.gameid
        IN  /\ slast.slot = n
            /\ playerStates = Append(spre.playerStates, PlayerStateZero)
            /\ connections = Append(spre.connections, Nil)
            /\ Len(gameModes) = Len(spre.gameModes)
            /\ At(gameModes, g).Players = Append(At(spre.gameModes, g).Players, n)
            /\ \A h \in 0 .. (Len(gameModes) - 1) :
                  h # g => At(gameModes, h) = At(spre.gameModes, h)
            /\ gameStates = spre.gameStates

\* The second player joins game 0, which already lists player 0, while game 1
\* exists beside it.
C11_Witness ==
    /\ slast.op = "JoinGame"
    /\ slast.cookie # {}
    /\ slast.body.gameid = 0
    /\ slast.slot = 1
    /\ Len(gameModes) = 2
    /\ At(spre.gameModes, 0).Players = << 0 >>

\* C12: two successful JoinGame calls on the same game, one after the other, give
\* two different tokens, and the session map takes the first to a slot strictly
\* below the slot it takes the second to.
C12_TwoJoinsTwoSessions ==
    \A a, b \in 1 .. Len(joins) :
        a < b /\ joins[a].gameid = joins[b].gameid =>
            /\ joins[a].token # joins[b].token
            /\ joins[a].token \in DOMAIN sessions
            /\ joins[b].token \in DOMAIN sessions
            /\ SessionSlot(sessions, joins[a].token) < SessionSlot(sessions, joins[b].token)

\* C13: connecting from an allowed origin with the token a successful JoinGame
\* returned succeeds and binds the new websocket to exactly the player slot that
\* join allocated, and the read loop of that websocket is started.
C13_ConnectWithJoinToken ==
    \A k \in 1 .. Len(joins) :
        (/\ slast.op = "NewClient"
         /\ slast.session = joins[k].token
         /\ slast.origin \in AllowedOrigins) =>
            /\ slast.status = 101
            /\ ~slast.failed
            /\ slast.slot = joins[k].slot
            /\ At(connections, joins[k].slot) = slast.conn
            /\ readLoops[slast.conn] =
                  [slot |-> joins[k].slot, pc |-> "reading", dead |-> FALSE]

\* C14: a connect attempt without session cookie, or with a token that is no key
\* of the session map, is answered 403: no websocket is opened or bound to a slot
\* and no read loop is started.
C14_InvalidSessionRefused ==
    (/\ slast.op = "NewClient"
     /\ (slast.session = NoCookie \/ slast.session \notin DOMAIN spre.sessions)) =>
        /\ slast.status = 403
        /\ slast.conn = 0
        /\ slast.slot = -1
        /\ connections = spre.connections
        /\ Len(readLoops) = slast.loops

\* A player holds slot 0 and connects from an allowed origin with the token the
\* join returned, which the session map does not hold.
C14_Witness ==
    /\ slast.op = "NewClient"
    /\ slast.session # NoCookie
    /\ slast.session \notin DOMAIN sessions
    /\ slast.session \in {joins[k].token : k \in 1 .. Len(joins)}
    /\ slast.origin \in AllowedOrigins
    /\ Len(playerStates) >= 1
    /\ slast.status = 403

\* C15: a rejected connect attempt (session cookie missing, token unknown, or an
\* Origin that is not in the allow-list) leaves connections, player states, game
\* modes, game states and the session map exactly as they were.
C15_RejectedConnectChangesNothing ==
    (/\ slast.op = "NewClient"
     /\ \/ slast.session = NoCookie
        \/ slast.session \notin DOMAIN spre.sessions
        \/ slast.origin \notin AllowedOrigins) =>
        /\ Registry = spre
        /\ slast.status = 403

\* A known token whose slot exists, presented from an origin that is not allowed.
C15_Witness ==
    /\ slast.op = "NewClient"
    /\ slast.session \in DOMAIN sessions
    /\ InRange(connections, SessionSlot(sessions, slast.session))
    /\ slast.origin \notin AllowedOrigins
    /\ slast.status = 403

\* The slots listed in some game's player list.
SlotsOf(i) == Range(At(gameModes, i).Players)

Games == 0 .. (Len(gameModes) - 1)

\* Slot j holds a websocket and both writes to it succeed in the last tick.
SendsSucceed(j) == At(connections, j) # Nil /\ btick.outcome[j + 1] = "ok"

\* Slot j holds a websocket and a write to it fails in the last tick.
SendFails(j) == At(connections, j) # Nil /\ btick.outcome[j + 1] # "ok"

\* C16: in every tick of the update push, for every game and every slot of its
\* player list: a slot with a websocket whose sends succeed receives exactly two
\* frames, first that player's PlayerState and then the game's GameState; for a
\* slot without websocket nothing is sent, and the tick goes on without fault.
C16_TickSendsTwoFramesInOrder ==
    btick.ran =>
        /\ bpc = "running"
        /\ \A i \in Games : \A j \in SlotsOf(i) :
              /\ SendsSucceed(j) =>
                    btick.written[j + 1] =
                        << [arg |-> "playerStates", index |-> j,
                            json |-> At(playerStates, j)],
                           [arg |-> "gameStates", index |-> i,
                            json |-> At(gameStates, i)] >>
              /\ At(connections, j) = Nil => btick.written[j + 1] = << >>

\* A tick in which slot 0, freshly bound, receives x=0, y=0, condition=0 and then
\* the empty GameState of game 0, while slot 1 has no websocket.
C16_Witness ==
    /\ btick.ran
    /\ Len(connections) = 2
    /\ 0 \in SlotsOf(0)
    /\ \E i \in Games : 1 \in SlotsOf(i)
    /\ SendsSucceed(0)
    /\ At(connections, 1) = Nil
    /\ btick.written =
          << << [arg |-> "playerStates", index |-> 0,
                 json |-> [x |-> 0, y |-> 0, condition |-> 0]],
                [arg |-> "gameStates", index |-> 0, json |-> [fields |-> {}]] >>,
             << >> >>

\* C17: a send failure on the websocket of player P in a tick keeps no other
\* player Q with a websocket, of the same or of another game, from receiving both
\* frames of that tick, and does not end the update push.
C17_SendFailureIsolated ==
    btick.ran =>
        \A i, k \in Games : \A p \in SlotsOf(i), q \in SlotsOf(k) :
            p # q /\ SendFails(p) /\ SendsSucceed(q) =>
                /\ Len(btick.written[q + 1]) = 2
                /\ btick.written[q + 1][1].arg = "playerStates"
                /\ btick.written[q + 1][2].arg = "gameStates"
                /\ bpc = "running"

\* Players 0 and 1 are in the same game, the first write to player 0 fails, and
\* player 1, who comes after, receives both frames.
C17_Witness ==
    /\ btick.ran
    /\ \E i \in Games : At(gameModes, i).Players = << 0, 1 >>
    /\ At(connections, 0) # Nil
    /\ btick.outcome = << "fail1", "ok" >>
    /\ SendsSucceed(1)
    /\ Len(btick.written[2]) = 2

\* C18: the update push ends only on a stop signal: as long as none has been
\* delivered it is running, whatever sends fail, whichever connections are absent
\* and whichever create, join and connect requests are served meanwhile.
C18_PushRunsUntilStopped ==
    ~stopSent => bpc = "running"

\* C19: when the read of a websocket fails (the socket is gone), the read loop of
\* that websocket exits: it is in its final state Closed and reads no more.
C19_ReadLoopExitsOnError ==
    \A c \in 1 .. Len(readLoops) :
        readLoops[c].dead => readLoops[c].pc = "closed"

\* C20: after the read of the websocket bound to slot i has failed, the slot no
\* longer holds that websocket, so that no later tick writes to it.
C20_DeadConnectionUnbound ==
    \A c \in 1 .. Len(readLoops) :
        readLoops[c].dead => At(connections, readLoops[c].slot) # c

\* C21: every read and write of the registry by a handler, a read loop or the
\* update push is made under the one registry lock, so that no two of them touch
\* it at the same time: a tick never reads the registry while writes of a handler
\* are not ordered before its reads.
C21_AccessesSerialized ==
    slast.op = "BeginUpdatePush" => unsynced = 0

\* The names of the entities k-1, k, ... one after the other.
RECURSIVE NamesFrom(_)
NamesFrom(k) == IF k > Len(cNames) THEN "" ELSE cNames[k] \o NamesFrom(k + 1)

\* text written n times
RECURSIVE Times(_, _)
Times(text, n) == IF n = 0 THEN "" ELSE text \o Times(text, n - 1)

ValidJSON == {JSON, Mismatch}

\* C23, as claimed: marshalBodyToRequest returns an error for every request whose
\* method is not POST or whose body is missing or is no valid JSON, and no error
\* for a POST request with a valid JSON body.
C23_MarshalErrorsAsClaimed ==
    slast.op = "marshalBodyToRequest" =>
        /\ (\/ slast.method # "POST"
            \/ slast.body.kind = NilBody
            \/ slast.body.kind = BadJSON) => slast.error # ""
        /\ (slast.method = "POST" /\ slast.body.kind \in ValidJSON) => slast.error = ""

\* C23, amended: marshalBodyToRequest returns an error for every request whose
\* method is not POST or whose body is missing or is no valid JSON, and no error
\* for a POST request whose body is valid JSON that decodes into the request value.
C23_MarshalErrors ==
    slast.op = "marshalBodyToRequest" =>
        /\ (\/ slast.method # "POST"
            \/ slast.body.kind = NilBody
            \/ slast.body.kind = BadJSON) => slast.error # ""
        /\ (slast.method = "POST" /\ slast.body.kind = JSON) => slast.error = ""

\* A POST with the body {"username": "bob", "gameid": 0} is decoded without error.
C23_Witness ==
    /\ slast.op = "marshalBodyToRequest"
    /\ slast.method = "POST"
    /\ slast.body = [kind |-> JSON, username |-> "bob", gameid |-> 0]
    /\ slast.error = ""

\* C24: the CreateGame handler answers a POST with the body {} with status 200 and
\* the id of the game it has just created, and answers GET, PUT and PATCH with a
\* status other than 200, leaving the games as they were.
C24_CreateGameHTTP ==
    slast.op = "CreateGame" =>
        /\ (slast.method = "POST" /\ slast.body.kind = JSON) =>
               /\ slast.status = 200
               /\ slast.gameid = Len(spre.gameModes)
               /\ Len(gameModes) = Len(spre.gameModes) + 1
               /\ Len(gameStates) = Len(spre.gameStates) + 1
        /\ slast.method \in {"GET", "PUT", "PATCH"} =>
               /\ slast.status # 200
               /\ gameModes = spre.gameModes
               /\ gameStates = spre.gameStates

\* A GET with the body {} was refused after a game had been created by a POST.
C24_Witness ==
    /\ slast.op = "CreateGame"
    /\ slast.method = "GET"
    /\ slast.body.kind = JSON
    /\ slast.status = 500
    /\ Len(gameModes) = 1

\* The bodies of the joins the handler rejects: unreadable, malformed, with a
\* gameid that names no game, or with an empty username.
RejectedJoin(body, states) ==
    \/ body.kind \in {ReadError, BadJSON, Mismatch}
    \/ body.gameid < 0 \/ body.gameid >= Len(states)
    \/ body.username = ""

\* C25: the JoinGame handler sets the SessionID cookie exactly when it has allocated
\* a player slot, the cookie's value is the token minted for that slot, and every
\* rejected join sets no cookie.
C25_CookieIffJoined ==
    slast.op = "JoinGame" =>
        /\ slast.cookie # {} <=> Len(playerStates) = Len(spre.playerStates) + 1
        /\ slast.cookie # {} =>
               /\ Len(joins) > 0
               /\ slast.cookie = {joins[Len(joins)].token}
               /\ joins[Len(joins)].slot = Len(playerStates) - 1
               /\ \A k \in 1 .. (Len(joins) - 1) :
                      joins[k].token # joins[Len(joins)].token
        /\ RejectedJoin(slast.body, spre.gameStates) =>
               /\ slast.cookie = {}
               /\ playerStates = spre.playerStates

\* A second join succeeded and got the cookie of the second token.
C25_Witness ==
    /\ slast.op = "JoinGame"
    /\ Len(joins) = 2
    /\ slast.cookie = {joins[2].token}
    /\ joins[2].slot = 1
    /\ Len(playerStates) = 2

\* C26: AddComponent called with an entity id that is negative or not below the
\* entity count fails with an explicit error, i.e. returns instead of panicking,
\* and leaves every mask and every stored name unchanged.
C26_AddComponentOutOfRangeIsAnError ==
    (wlast.op = "AddComponent" /\ ~InRange(wpre.cFlags, wlast.eid)) =>
        /\ ~wlast.panicked
        /\ cNames = wpre.cNames
        /\ cFlags = wpre.cFlags

\* C27: the name array and the mask array have the same length in every reachable
\* world, so every id that AddEntity has returned is an index of both.
C27_ArraysInLockstep ==
    /\ Len(cNames) = Len(cFlags)
    /\ \A k \in 1 .. Len(ids) : InRange(cNames, ids[k]) /\ InRange(cFlags, ids[k])

\* C28: after the read loop has decoded a frame as a proposed PlayerState, which
\* the validation hook accepts, the PlayerState of the loop's slot is the proposed
\* one (the one the next tick sends to that player).
C28_ProposalApplied ==
    (slast.op = "ReadIncomingMessages" /\ slast.body.kind = JSON) =>
        /\ At(playerStates, slast.slot) = ProposedState
        /\ PlayerStateFrame(playerStates, slast.slot).json = ProposedState

\* C29: a frame that does not decode as a PlayerState is a soft error: the read
\* loop of the websocket is still running and reading, the binding of its slot is
\* the one before the frame, and no PlayerState has changed.
C29_BadFrameIsSoftError ==
    (slast.op = "ReadIncomingMessages" /\ slast.body.kind = BadJSON) =>
        /\ readLoops[slast.conn].pc = "reading"
        /\ ~readLoops[slast.conn].dead
        /\ connections = spre.connections
        /\ playerStates = spre.playerStates

\* The loop of a websocket that is bound to its slot has read an undecodable frame.
C29_Witness ==
    /\ slast.op = "ReadIncomingMessages"
    /\ slast.body.kind = BadJSON
    /\ slast.conn = 1
    /\ At(connections, slast.slot) = 1
    /\ readLoops[1].pc = "reading"

\* The last tick called a write to the websocket of slot p: it wrote a frame to it,
\* or a write to it failed.
Attempted(p) == btick.written[p + 1] # << >> \/ SendFails(p)

\* C30: when the send of a player's PlayerState fails in a tick, no GameState frame
\* (no frame at all) is written to that player in that tick, and the next tick
\* calls a write to that player again, beginning with the PlayerState.
C30_FailedPlayerSkippedThenRetried ==
    btick.ran =>
        \A i \in Games : \A p \in SlotsOf(i) :
            /\ (At(connections, p) # Nil /\ btick.outcome[p + 1] = "fail1") =>
                  btick.written[p + 1] = << >>
            /\ (bprev.ran /\ bprev.outcome[p + 1] = "fail1") =>
                  /\ Attempted(p)
                  /\ btick.outcome[p + 1] # "fail1" =>
                        /\ btick.written[p + 1] # << >>
                        /\ btick.written[p + 1][1] = PlayerStateFrame(playerStates, p)

\* Two ticks in a row: the PlayerState send to player 0 failed in the first, and
\* in the second both frames reached player 0; player 1 of the same game got its
\* frames in both.
C30_Witness ==
    /\ btick.ran
    /\ bprev.ran
    /\ \E i \in Games : At(gameModes, i).Players = << 0, 1 >>
    /\ At(connections, 0) # Nil
    /\ At(connections, 1) # Nil
    /\ bprev.outcome = << "fail1", "ok" >>
    /\ bprev.written[1] = << >>
    /\ btick.outcome = << "ok", "ok" >>
    /\ Len(btick.written[1]) = 2

\* How often slot j occurs in the player lists of all games.
RECURSIVE Occurrences(_, _)
Occurrences(j, i) ==
    IF i >= Len(gameModes) THEN 0
    ELSE Cardinality({k \in 1 .. Len(At(gameModes, i).Players) :
                         At(gameModes, i).Players[k] = j})
             + Occurrences(j, i + 1)

\* C31: however the statements of join handlers running at the same time
\* interleave, no two successful joins obtain the same slot index, each obtained
\* index is in the player lists exactly once, and when no join is under way there
\* are as many player slots as successful joins.
C31_ConcurrentJoinsDistinctSlots ==
    /\ \A a, b \in 1 .. Len(joins) : a # b => joins[a].slot # joins[b].slot
    /\ \A a \in 1 .. Len(joins) : Occurrences(joins[a].slot, 0) = 1
    /\ (\A h \in Handlers : jh[h].pc = "idle") => Len(playerStates) = Len(joins)

\* C32: however a tick interleaves with the statements of the handlers, every
\* index it uses is in range when it is used: no tick ends in an index out of
\* range, neither of s.gameStates nor of s.connections or s.playerStates.
C32_TickIndicesInRange ==
    slast.op = "BeginUpdatePush" => ~slast.failed

\* C33: each player slot has at most one websocket bound to it and at most one read
\* loop running for it, also after the same session token has been presented by
\* more than one successful connect.
C33_OneReadLoopPerSlot ==
    \A c, d \in 1 .. Len(readLoops) :
        (c # d /\ readLoops[c].pc = "reading" /\ readLoops[d].pc = "reading") =>
            readLoops[c].slot # readLoops[d].slot

\* Where the connection of slot j is, given the websocket the slot holds: Unbound
\* without one, Closed when the read of the one it holds has failed for good,
\* Bound otherwise.
ConnState(ws) ==
    IF ws = Nil THEN "Unbound"
    ELSE IF readLoops[ws].dead THEN "Closed"
    ELSE "Bound"

\* C34: a connection only moves forward. The websocket of a slot changes only by a
\* connect that presented a known session token and passed the origin check; a
\* websocket whose read has failed had been bound to a slot; and a slot whose
\* connection is Closed is not bound again.
C34_ConnectionOnlyMovesForward ==
    /\ \A j \in 0 .. (Len(spre.connections) - 1) :
          At(connections, j) # At(spre.connections, j) =>
              /\ slast.op = "NewClient"
              /\ slast.session \in DOMAIN sessions
              /\ slast.origin \in AllowedOrigins
    /\ \A c \in 1 .. Len(readLoops) : readLoops[c].dead => readLoops[c].slot >= 0
    /\ \A j \in 0 .. (Len(spre.connections) - 1) :
          (slast.op = "NewClient"
              /\ ConnState(At(spre.connections, j)) = "Closed") =>
                  ConnState(At(connections, j)) = "Closed"

\* C35: once a stop signal has been sent on the stop channel the update push ends,
\* it stays ended, and a step made after its end is no tick: no frame is written
\* to any websocket.
C35_StopEndsThePush ==
    /\ stopSent ~> bpc = "stopped"
    /\ [][bpc = "stopped" => (bpc' = "stopped" /\ ~btick'.ran)]_vars

\* The push has been stopped while a websocket was bound to a player of a game.
C35_Witness ==
    /\ stopSent
    /\ bpc = "stopped"
    /\ slast.op = "stop"
    /\ \E i \in Games : \E p \in SlotsOf(i) : At(connections, p) # Nil

\* The slots a websocket can be bound to: those a session token stands for.
Slots == {SeedSessions[t] : t \in DOMAIN SeedSessions}

\* Slot p holds a websocket while the update push runs.
LiveSlot(p) == InRange(connections, p) /\ At(connections, p) # Nil /\ bpc = "running"

\* The last step was a tick whose two writes to the websocket of slot p succeeded
\* and wrote the PlayerState of p and then a GameState.
ReceivedPair(p) ==
    /\ btick.ran
    /\ InRange(connections, p)
    /\ SendsSucceed(p)
    /\ Len(btick.written[p + 1]) = 2
    /\ btick.written[p + 1][1] = PlayerStateFrame(playerStates, p)
    /\ btick.written[p + 1][2].arg = "gameStates"

\* C36: while the update push has not been stopped, every slot with a websocket
\* whose sends succeed receives a PlayerState/GameState pair in a coming tick, and
\* in every tick whose sends to it succeed it receives exactly one pair.
C36_LiveSlotsKeepReceiving ==
    /\ \A p \in Slots :
          LiveSlot(p) ~>
              (\/ bpc # "running"
               \/ ReceivedPair(p)
               \/ btick.ran /\ InRange(connections, p) /\ SendFails(p))
    /\ [](\A p \in Slots :
              (LiveSlot(p) /\ btick.ran /\ SendsSucceed(p)) => ReceivedPair(p))

\* A tick has written the pair to slot 0 while slot 1 of the same game holds no
\* websocket and the push has not been stopped.
C36_Witness ==
    /\ LiveSlot(0)
    /\ ReceivedPair(0)
    /\ ~stopSent
    /\ \E i \in Games : At(gameModes, i).Players = << 0, 1 >>
    /\ At(connections, 1) = Nil

C38_ConditionEnumerated ==
    \A j \in 0 .. (Len(playerStates) - 1) :
        At(playerStates, j).condition \in PlayerConditions

\* C40: FindAllEntitiesByComponentType(bit) is complete for each of the three
\* component bits: it contains every entity whose mask has the bit, its ids
\* increase strictly (no duplicates), and it contains no entity whose mask is 0.
C40_FindIsComplete ==
    wlast.op = "FindAllEntitiesByComponentType" =>
        /\ \A e \in 0 .. (Len(cFlags) - 1) :
              /\ BitAnd(At(cFlags, e), wlast.cid) # 0 => e \in Range(wlast.retIds)
              /\ At(cFlags, e) = 0 => e \notin Range(wlast.retIds)
        /\ \A k \in 1 .. (Len(wlast.retIds) - 1) : wlast.retIds[k] < wlast.retIds[k + 1]
        /\ \A k \in 1 .. Len(wlast.retIds) : InRange(cFlags, wlast.retIds[k])

\* The search for POSITION among three entities: the first has the POSITION bit,
\* the second no bit, the third the NAME and POSITION bits.
C40_Witness ==
    /\ wlast.op = "FindAllEntitiesByComponentType"
    /\ wlast.cid = POSITION
    /\ cFlags = << POSITION, 0, NAME + POSITION >>
    /\ wlast.retIds = << 0, 2 >>

\* C39: a connect that binds a websocket to a slot sets the PlayerState of that
\* slot to the zero state, whatever it held, and leaves the PlayerState and the
\* websocket of every other slot as they were.
C39_BindResetsThePlayerState ==
    (slast.op = "NewClient" /\ slast.slot >= 0) =>
        /\ At(playerStates, slast.slot) = [x |-> 0, y |-> 0, condition |-> 0]
        /\ At(connections, slast.slot) = slast.conn
        /\ Len(playerStates) = Len(spre.playerStates)
        /\ Len(connections) = Len(spre.connections)
        /\ \A j \in 0 .. (Len(playerStates) - 1) :
              j # slast.slot =>
                  /\ At(playerStates, j) = At(spre.playerStates, j)
                  /\ At(connections, j) = At(spre.connections, j)

\* A connect has bound a websocket to slot 0, which held x=1, y=1 before and holds
\* the zero state now, while slot 1 still holds x=1, y=1 and no websocket.
C39_Witness ==
    /\ slast.op = "NewClient"
    /\ slast.slot = 0
    /\ At(spre.playerStates, 0) = [x |-> 1, y |-> 1, condition |-> 0]
    /\ At(playerStates, 0) = [x |-> 0, y |-> 0, condition |-> 0]
    /\ Len(playerStates) = 2
    /\ At(playerStates, 1) = [x |-> 1, y |-> 1, condition |-> 0]
    /\ At(connections, 1) = Nil

====
